---- MODULE Spec2Model ----
(***************************************************************************)
(* A model of exclusiveprocess.Lock: the lock file of ONE lock name, the   *)
(* processes that use it through the with-block / decorator form,          *)
(* forever() and _release(), and the operating system underneath (the      *)
(* directory entry, the inodes, the POSIX advisory locks of os.lockf and   *)
(* the process table probed by os.kill(pid, 0)).                           *)
(***************************************************************************)
EXTENDS Integers, Sequences, FiniteSets, TLC

(***************************************************************************)
(* Bounds.                                                                 *)
(***************************************************************************)
\* Number of library calls (with block, forever(), _release()) the processes
\* make between them.
MaxCalls == 3

\* The processes that use the lock name.
Procs == {1, 2}

\* One more inode than there are processes: the one the path names plus one
\* unlinked inode per other process that still has it open.
Inodes == 1..(Cardinality(Procs) + 1)
NoFile == 0
NoProc == 0
NoPid == 0

\* The two Lock objects of a process: Lock(name=N) and Lock(name=N, die=True).
Handles == {"plain", "die"}

\* A Lock object whose die policy is never in force.
die_ignored(h) == FALSE

\* Lock.__init__: self.die = die
die(h) == h = "die"

(***************************************************************************)
(* Text: file contents are sequences of one-character strings.             *)
(***************************************************************************)
Digits == <<"0", "1", "2", "3", "4", "5", "6", "7", "8", "9">>

IsDigit(c) == \E i \in 1..10 : Digits[i] = c

DigitVal(c) == (CHOOSE i \in 1..10 : Digits[i] = c) - 1

IsSpace(c) == c \in {" ", "\n", "\t"}

\* str(n) for n >= 0: the decimal text of n.
RECURSIVE str(_)
str(n) == IF n < 10 THEN <<Digits[n + 1]>>
          ELSE str(n \div 10) \o <<Digits[(n % 10) + 1]>>

\* str.strip(): drop leading and trailing whitespace.
RECURSIVE lstrip(_)
lstrip(s) == IF s # <<>> /\ IsSpace(Head(s)) THEN lstrip(Tail(s)) ELSE s

RECURSIVE rstrip(_)
rstrip(s) == IF s # <<>> /\ IsSpace(s[Len(s)])
             THEN rstrip(SubSeq(s, 1, Len(s) - 1)) ELSE s

strip(s) == rstrip(lstrip(s))

\* The value of a non-empty sequence of digits.
RECURSIVE DigitsVal(_)
DigitsVal(s) == IF s = <<>> THEN 0
                ELSE 10 * DigitsVal(SubSeq(s, 1, Len(s) - 1)) + DigitVal(s[Len(s)])

AllDigits(s) == s # <<>> /\ \A i \in 1..Len(s) : IsDigit(s[i])

\* int(text): [ok |-> TRUE, val |-> n], or [ok |-> FALSE] for ValueError.
\* int() takes an optional sign followed by digits (the caller has stripped
\* the text).
int(s) ==
    IF s # <<>> /\ Head(s) = "-" /\ AllDigits(Tail(s))
        THEN [ok |-> TRUE, val |-> 0 - DigitsVal(Tail(s))]
    ELSE IF s # <<>> /\ Head(s) = "+" /\ AllDigits(Tail(s))
        THEN [ok |-> TRUE, val |-> DigitsVal(Tail(s))]
    ELSE IF AllDigits(s)
        THEN [ok |-> TRUE, val |-> DigitsVal(s)]
    ELSE [ok |-> FALSE, val |-> 0]

(***************************************************************************)
(* Process identifiers.                                                    *)
(***************************************************************************)
\* os.getpid() of each process: identifiers with different numbers of digits.
getpid(p) == IF p = 1 THEN 7 ELSE IF p = 2 THEN 12 ELSE 100 + p

\* A process of another user (init): os.kill(1, 0) is refused with EPERM.
ForeignPid == 1

\* my_pid = str(os.getpid())
my_pid(p) == str(getpid(p))

(***************************************************************************)
(* State.                                                                  *)
(***************************************************************************)
VARIABLES
    dirent,       \* the inode the lock file's path names, or NoFile
    data,         \* data[i]: the content of inode i
    lockowner,    \* lockowner[i]: the process holding os.lockf on inode i
    status,       \* status[p]: "running", "exited" or "killed"
    exitcode,     \* exitcode[p]: the exit status of a process that exited
    stderr,       \* stderr[p]: the pid named by the message printed, or NoPid
    pc,           \* pc[p]: where the process is in the library's code
    call,         \* call[p]: the library call in progress or last made
    hnd,          \* hnd[p]: the Lock object (self) of that call
    fd,           \* fd[p]: the inode of the file object f, or NoFile
    existing_pid, \* existing_pid[p]: the local variable of _acquire
    result,       \* result[p]: how the last call ended
    lockfile,     \* lockfile[p][h]: whether self.lockfile has been set
    acquired,     \* acquired[p][h]: _acquire returned and _release has not run
    atexit,       \* atexit[p]: the Lock objects whose _release is registered
    ncalls,       \* library calls made so far
    solo,         \* solo[p]: no other process has stepped since p's call began
    startrec,     \* startrec[p]: the record as it was when p's call began
    rerun,        \* rerun[p]: the call repeats p's with block, run just before
    vacated,      \* the path is absent because a release unlinked it
    probe         \* a call of is_pid_valid: its argument, what os.kill
                  \* answers, and what the call returns or raises

vars == <<dirent, data, lockowner, status, exitcode, stderr, pc, call, hnd, fd,
          existing_pid, result, lockfile, acquired, atexit, ncalls, solo,
          startrec, rerun, vacated, probe>>

\* How a call ends: the exception that reaches the caller, if any.
Returned == [exc |-> "none", msg |-> "none", pid |-> NoPid]

NotCalled == [exc |-> "nocall", msg |-> "none", pid |-> NoPid]

\* raise CannotAcquireLock("Another '%s' process is already running (pid %d).")
LockHeld(pid) == [exc |-> "CannotAcquireLock", msg |-> "already running", pid |-> pid]

\* raise CannotAcquireLock("There was an error opening %s after an open in
\* 'x' mode failed ...")
ErrorOpening == [exc |-> "CannotAcquireLock", msg |-> "error opening", pid |-> NoPid]

\* is_pid_valid: raise ValueError('Invalid PID.')
InvalidPID == [exc |-> "ValueError", msg |-> "Invalid PID.", pid |-> NoPid]

\* sys.exit(1)
SystemExit == [exc |-> "SystemExit", msg |-> "none", pid |-> NoPid]

\* The exception raised by the protected body, propagated by __exit__.
BodyError == [exc |-> "BodyError", msg |-> "none", pid |-> NoPid]

(***************************************************************************)
(* The operating system.                                                   *)
(***************************************************************************)
Alive(p) == status[p] = "running"

\* os.kill(pid, 0): the outcome of the probe for the process table as it is.
os_kill(pid) ==
    IF \E p \in Procs : getpid(p) = pid /\ Alive(p) THEN "ok"
    ELSE IF pid = ForeignPid THEN "EPERM"
    ELSE "ESRCH"

\* What os.kill(pid, 0) can answer: it returns ("ok") or raises an OSError
\* whose errno is ESRCH, EPERM or something else (EINVAL).
KillOutcomes == {"ok", "ESRCH", "EPERM", "EINVAL"}

\* An oracle that takes a refused probe for a missing process.
pid_valid_refused_is_dead(isint, pid, outcome) ==
    IF ~isint THEN "ValueError"
    ELSE IF pid <= 0 THEN "ValueError"
    ELSE IF outcome = "ok" THEN "True"
    ELSE "False"

\* The body of is_pid_valid for an argument that is an int or not (isint),
\* its value, and the answer of os.kill(pid, 0): "True", "False", or the
\* exception raised ("ValueError" for 'Invalid PID.', "OSError" re-raised).
pid_valid(isint, pid, outcome) ==
    IF ~isint THEN "ValueError"
    ELSE IF pid <= 0 THEN "ValueError"
    ELSE IF outcome = "ESRCH" THEN "False"
    ELSE IF outcome = "EPERM" THEN "True"
    ELSE IF outcome = "ok" THEN "True"
    ELSE "OSError"

\* is_pid_valid(existing_pid) as _acquire calls it: the argument is the int
\* that int() returned, and os.kill answers for the process table as it is.
is_pid_valid(pid) == pid_valid(TRUE, pid, os_kill(pid))

\* No call of is_pid_valid outside _acquire has been made.
NotProbed == [isint |-> TRUE, pid |-> ForeignPid, outcome |-> "ok", ret |-> "uncalled"]

\* A write that never reaches the file.
WriteLost(s, pos, t) == s

\* write(fd, text) at offset pos: overwrites in place, extends at the end.
WriteAt(s, pos, t) ==
    [i \in 1..(IF Len(s) > pos + Len(t) THEN Len(s) ELSE pos + Len(t)) |->
        IF i > pos /\ i <= pos + Len(t) THEN t[i - pos] ELSE s[i]]

\* No truncation: the file keeps its length.
TruncateOmitted(s, n) == s

\* ftruncate(fd, n)
TruncateAt(s, n) == IF Len(s) > n THEN SubSeq(s, 1, n) ELSE s

\* An inode lives while the path names it or a process has it open.
InUse(i, d, f) == d = i \/ \E p \in Procs : f[p] = i

\* The kernel frees an inode nothing refers to; its content is gone.
Reap(dat, d, f) == [i \in Inodes |-> IF InUse(i, d, f) THEN dat[i] ELSE <<>>]

FreeInode == CHOOSE i \in Inodes :
                /\ ~InUse(i, dirent, fd)
                /\ \A j \in Inodes : ~InUse(j, dirent, fd) => i <= j

\* The record at the lock's location: a file and its content, "absent" when
\* there is none, "released" when the release of a held lock removed it.
Record == IF dirent # NoFile THEN [kind |-> "file", txt |-> data[dirent]]
          ELSE IF vacated THEN [kind |-> "released", txt |-> <<>>]
          ELSE [kind |-> "absent", txt |-> <<>>]

(***************************************************************************)
(* Initial states: every process is running and has made no call; the lock *)
(* file is absent, or was left behind by an earlier run with this content. *)
(***************************************************************************)
LeftBehind == { <<>>,                   \* empty
                <<"x">>,                \* not integer text
                <<"3", "4", "5">>,      \* the pid of no process
                <<"1", "\n">>,          \* a live process of another user
                <<"0">>,                \* zero
                <<"-", "7">> }          \* negative

Init ==
    /\ \/ dirent = NoFile /\ data = [i \in Inodes |-> <<>>]
       \/ /\ dirent = 1
          /\ \E txt \in LeftBehind :
                data = [i \in Inodes |-> IF i = 1 THEN txt ELSE <<>>]
    /\ lockowner = [i \in Inodes |-> NoProc]
    /\ status = [p \in Procs |-> "running"]
    /\ exitcode = [p \in Procs |-> 0]
    /\ stderr = [p \in Procs |-> NoPid]
    /\ pc = [p \in Procs |-> "idle"]
    /\ call = [p \in Procs |-> "none"]
    /\ hnd = [p \in Procs |-> "plain"]
    /\ fd = [p \in Procs |-> NoFile]
    /\ existing_pid = [p \in Procs |-> NoPid]
    /\ result = [p \in Procs |-> NotCalled]
    /\ lockfile = [p \in Procs |-> [h \in Handles |-> FALSE]]
    /\ acquired = [p \in Procs |-> [h \in Handles |-> FALSE]]
    /\ atexit = [p \in Procs |-> <<>>]
    /\ ncalls = 0
    /\ solo = [p \in Procs |-> FALSE]
    /\ startrec = [p \in Procs |-> [kind |-> "absent", txt |-> <<>>]]
    /\ rerun = [p \in Procs |-> FALSE]
    /\ vacated = FALSE
    /\ probe = NotProbed

(***************************************************************************)
(* Steps shared by the actions.                                            *)
(***************************************************************************)
NoRecord == [kind |-> "absent", txt |-> <<>>]

\* A step of p: every other process's call is no longer uncontended, and what
\* the record was when it began is of no interest any more.
Stepped(p) ==
    /\ solo' = [q \in Procs |-> IF q = p THEN solo[q] ELSE FALSE]
    /\ startrec' = [q \in Procs |-> IF q = p THEN startrec[q] ELSE NoRecord]
    /\ rerun' = [q \in Procs |-> IF q = p THEN rerun[q] ELSE FALSE]

\* The last call of p was a with block on Lock object h that ran its body and
\* left it, and no other process has stepped since that call began.
RanWith(p, h) ==
    /\ solo[p] /\ call[p] = "with" /\ hnd[p] = h
    /\ result[p] \in {Returned, BodyError}

\* _acquire, lines 83-84: self.lockfile = get_lock_file(self.name); the open
\* in 'x' mode comes next.
Begin(p, kind, h) ==
    /\ Alive(p) /\ pc[p] = "idle" /\ ncalls < MaxCalls
    /\ pc' = [pc EXCEPT ![p] = "x_open"]
    /\ call' = [call EXCEPT ![p] = kind]
    /\ hnd' = [hnd EXCEPT ![p] = h]
    /\ ncalls' = ncalls + 1
    /\ lockfile' = [lockfile EXCEPT ![p][h] = TRUE]
    /\ result' = [result EXCEPT ![p] = NotCalled]
    /\ solo' = [q \in Procs |-> q = p]
    /\ startrec' = [q \in Procs |-> IF q = p THEN Record ELSE NoRecord]
    /\ rerun' = [q \in Procs |-> q = p /\ kind = "with" /\ RanWith(p, h)]
    /\ UNCHANGED <<dirent, data, lockowner, status, exitcode, stderr, fd,
                   existing_pid, acquired, atexit, vacated>>
    /\ UNCHANGED probe

\* A file object whose close leaves the advisory lock and the descriptor
\* behind.
CloseFileLeaks(p) ==
    /\ UNCHANGED <<lockowner, fd, data>>
    /\ existing_pid' = [existing_pid EXCEPT ![p] = NoPid]

\* The file object f is closed (the end of its with block, on return or on an
\* exception): the descriptor is closed, which drops the advisory lock.
CloseFile(p) ==
    /\ lockowner' = [i \in Inodes |-> IF lockowner[i] = p THEN NoProc ELSE lockowner[i]]
    /\ fd' = [fd EXCEPT ![p] = NoFile]
    /\ data' = Reap(data, dirent, [fd EXCEPT ![p] = NoFile])
    /\ existing_pid' = [existing_pid EXCEPT ![p] = NoPid]

\* An exception leaves _acquire and reaches the caller of the with block or
\* of forever(): __exit__ is not called, nothing is registered.
Raise(p, exception) ==
    /\ pc' = [pc EXCEPT ![p] = "idle"]
    /\ result' = [result EXCEPT ![p] = exception]

\* _acquire returns (line 147). __enter__ returns self and the body runs;
\* forever() registers self._release with atexit and returns.
Acquired(p) ==
    /\ acquired' = [acquired EXCEPT ![p][hnd[p]] = TRUE]
    /\ IF call[p] = "with"
          THEN /\ pc' = [pc EXCEPT ![p] = "body"]
               /\ UNCHANGED <<atexit, result>>
          ELSE /\ pc' = [pc EXCEPT ![p] = "idle"]
               /\ atexit' = [atexit EXCEPT ![p] = Append(@, hnd[p])]
               /\ result' = [result EXCEPT ![p] = Returned]

(***************************************************************************)
(* The calls: the with-block / decorator form and forever().               *)
(***************************************************************************)
\* __enter__ (and __call__ of a decorated function, which is "with self:").
Enter(p, h) == Begin(p, "with", h)

\* forever()
Forever(p, h) == Begin(p, "forever", h)

(***************************************************************************)
(* _acquire, first block: create the lock file.                            *)
(***************************************************************************)
\* open(self.lockfile, 'x'): O_CREAT | O_EXCL. A new, empty file, or
\* FileExistsError, which leads to the second block.
OpenExclusive(p) ==
    /\ Alive(p) /\ pc[p] = "x_open"
    /\ \/ /\ dirent = NoFile
          /\ dirent' = FreeInode
          /\ data' = [data EXCEPT ![FreeInode] = <<>>]
          /\ fd' = [fd EXCEPT ![p] = FreeInode]
          /\ vacated' = FALSE
          /\ pc' = [pc EXCEPT ![p] = "x_lock"]
       \/ /\ dirent # NoFile
          /\ pc' = [pc EXCEPT ![p] = "r_open"]
          /\ UNCHANGED <<dirent, data, fd, vacated>>
    /\ Stepped(p)
    /\ UNCHANGED <<lockowner, status, exitcode, stderr, call, hnd, existing_pid,
                   result, lockfile, acquired, atexit, ncalls>>
    /\ UNCHANGED probe

\* os.lockf(f.fileno(), os.F_LOCK, 0) on the new file: blocks while another
\* process holds the lock on the same inode.
LockCreated(p) ==
    /\ Alive(p) /\ pc[p] = "x_lock"
    /\ lockowner[fd[p]] = NoProc
    /\ lockowner' = [lockowner EXCEPT ![fd[p]] = p]
    /\ pc' = [pc EXCEPT ![p] = "x_write"]
    /\ Stepped(p)
    /\ UNCHANGED <<dirent, data, status, exitcode, stderr, call, hnd, fd,
                   existing_pid, result, lockfile, acquired, atexit, ncalls, vacated>>
    /\ UNCHANGED probe

\* f.write(my_pid), which reaches the file when the with block flushes f: the
\* descriptor is at offset 0 and nothing truncates the file.
WriteCreated(p) ==
    /\ Alive(p) /\ pc[p] = "x_write"
    /\ data' = [data EXCEPT ![fd[p]] = WriteAt(@, 0, my_pid(p))]
    /\ pc' = [pc EXCEPT ![p] = "x_close"]
    /\ Stepped(p)
    /\ UNCHANGED <<dirent, lockowner, status, exitcode, stderr, call, hnd, fd,
                   existing_pid, result, lockfile, acquired, atexit, ncalls, vacated>>
    /\ UNCHANGED probe

\* The with block closes f, and _acquire returns.
CloseCreated(p) ==
    /\ Alive(p) /\ pc[p] = "x_close"
    /\ CloseFile(p)
    /\ Acquired(p)
    /\ Stepped(p)
    /\ UNCHANGED <<dirent, status, exitcode, stderr, call, hnd, lockfile,
                   ncalls, vacated>>
    /\ UNCHANGED probe

(***************************************************************************)
(* _acquire, second block: the lock file exists.                           *)
(***************************************************************************)
\* A loop back to the exclusive creation.
OnVanishedRetry == "retry"

\* What _acquire does when the file is gone at open(self.lockfile, 'r+'):
\* the OSError is re-wrapped as CannotAcquireLock; there is no loop.
OnVanished == "raise"

\* open(self.lockfile, 'r+'): never creates. FileNotFoundError is an OSError.
OpenUpdate(p) ==
    /\ Alive(p) /\ pc[p] = "r_open"
    /\ IF dirent = NoFile
          THEN /\ IF OnVanished = "raise"
                     THEN Raise(p, ErrorOpening)
                     ELSE pc' = [pc EXCEPT ![p] = "x_open"] /\ UNCHANGED result
               /\ UNCHANGED fd
          ELSE /\ fd' = [fd EXCEPT ![p] = dirent]
               /\ pc' = [pc EXCEPT ![p] = "r_lock"]
               /\ UNCHANGED result
    /\ Stepped(p)
    /\ UNCHANGED <<dirent, data, lockowner, status, exitcode, stderr, call, hnd,
                   existing_pid, lockfile, acquired, atexit, ncalls,
                   vacated>>
    /\ UNCHANGED probe

\* os.lockf(f.fileno(), os.F_LOCK, 0) on the existing file.
LockExisting(p) ==
    /\ Alive(p) /\ pc[p] = "r_lock"
    /\ lockowner[fd[p]] = NoProc
    /\ lockowner' = [lockowner EXCEPT ![fd[p]] = p]
    /\ pc' = [pc EXCEPT ![p] = "r_read"]
    /\ Stepped(p)
    /\ UNCHANGED <<dirent, data, status, exitcode, stderr, call, hnd, fd,
                   existing_pid, result, lockfile, acquired, atexit, ncalls, vacated>>
    /\ UNCHANGED probe

\* The ValueError of int() not caught.
ParseRecordUncaught(txt) == IF int(strip(txt)).ok THEN "probe" ELSE "raise"

\* try: existing_pid = int(f.read().strip()) / except ValueError: pass.
\* "probe" when the text is an integer, "overwrite" when it is not.
ParseRecord(txt) == IF int(strip(txt)).ok THEN "probe" ELSE "overwrite"

ReadPid(p) ==
    /\ Alive(p) /\ pc[p] = "r_read"
    /\ IF ParseRecord(data[fd[p]]) = "probe"
          THEN /\ existing_pid' = [existing_pid EXCEPT ![p] = int(strip(data[fd[p]])).val]
               /\ pc' = [pc EXCEPT ![p] = "r_probe"]
               /\ UNCHANGED <<result, lockowner, fd, data>>
          ELSE IF ParseRecord(data[fd[p]]) = "overwrite"
          THEN /\ existing_pid' = [existing_pid EXCEPT ![p] = NoPid]
               /\ pc' = [pc EXCEPT ![p] = "r_write"]
               /\ UNCHANGED <<result, lockowner, fd, data>>
          ELSE /\ CloseFile(p)
               /\ Raise(p, [exc |-> "ValueError", msg |-> "invalid literal", pid |-> NoPid])
    /\ Stepped(p)
    /\ UNCHANGED <<dirent, status, exitcode, stderr, call, hnd, lockfile,
                   acquired, atexit, ncalls, vacated>>
    /\ UNCHANGED probe

\* if is_pid_valid(existing_pid): raise CannotAcquireLock(msg), or with die
\* print(msg, file=sys.stderr); sys.exit(1). Otherwise fall through to the
\* overwrite. An exception of is_pid_valid leaves the with block: ValueError
\* reaches the caller, an OSError is caught by "except OSError".
Probe(p) ==
    /\ Alive(p) /\ pc[p] = "r_probe"
    /\ IF is_pid_valid(existing_pid[p]) = "False"
          THEN /\ pc' = [pc EXCEPT ![p] = "r_write"]
               /\ UNCHANGED <<result, lockowner, fd, data, stderr, exitcode,
                              existing_pid>>
          ELSE /\ CloseFile(p)
               /\ IF is_pid_valid(existing_pid[p]) = "ValueError"
                     THEN Raise(p, InvalidPID) /\ UNCHANGED <<stderr, exitcode>>
                  ELSE IF is_pid_valid(existing_pid[p]) = "OSError"
                     THEN Raise(p, ErrorOpening) /\ UNCHANGED <<stderr, exitcode>>
                  ELSE IF ~die(hnd[p])
                     THEN Raise(p, LockHeld(existing_pid[p])) /\ UNCHANGED <<stderr, exitcode>>
                  ELSE /\ stderr' = [stderr EXCEPT ![p] = existing_pid[p]]
                       /\ exitcode' = [exitcode EXCEPT ![p] = 1]
                       /\ result' = [result EXCEPT ![p] = SystemExit]
                       /\ pc' = [pc EXCEPT ![p] = "atexit"]
    /\ Stepped(p)
    /\ UNCHANGED <<dirent, status, call, hnd, lockfile, acquired, atexit,
                   ncalls, vacated>>
    /\ UNCHANGED probe

\* f.seek(0); f.write(my_pid): the text reaches the file at offset 0 when
\* f.truncate() flushes f.
Overwrite(p) ==
    /\ Alive(p) /\ pc[p] = "r_write"
    /\ data' = [data EXCEPT ![fd[p]] = WriteAt(@, 0, my_pid(p))]
    /\ pc' = [pc EXCEPT ![p] = "r_trunc"]
    /\ Stepped(p)
    /\ UNCHANGED <<dirent, lockowner, status, exitcode, stderr, call, hnd, fd,
                   existing_pid, result, lockfile, acquired, atexit, ncalls, vacated>>
    /\ UNCHANGED probe

\* f.truncate(): the file is cut at the position after the text written.
Truncate(p) ==
    /\ Alive(p) /\ pc[p] = "r_trunc"
    /\ data' = [data EXCEPT ![fd[p]] = TruncateAt(@, Len(my_pid(p)))]
    /\ pc' = [pc EXCEPT ![p] = "r_close"]
    /\ Stepped(p)
    /\ UNCHANGED <<dirent, lockowner, status, exitcode, stderr, call, hnd, fd,
                   existing_pid, result, lockfile, acquired, atexit, ncalls, vacated>>
    /\ UNCHANGED probe

\* The with block closes f, and _acquire returns.
CloseExisting(p) ==
    /\ Alive(p) /\ pc[p] = "r_close"
    /\ CloseFile(p)
    /\ Acquired(p)
    /\ Stepped(p)
    /\ UNCHANGED <<dirent, status, exitcode, stderr, call, hnd, lockfile,
                   ncalls, vacated>>
    /\ UNCHANGED probe

(***************************************************************************)
(* The protected body, __exit__ and _release.                              *)
(***************************************************************************)
\* A release on normal return only.
ExitReleasesOnReturn(raised) == ~raised

\* __exit__(self, *exc_info): self._release(), whatever exc_info holds.
ExitReleases(raised) == TRUE

\* "except OSError: pass" in place of the bare except.
SwallowedOSError(exception) == exception # "AttributeError"

\* _release: "except: pass" catches every exception of the try block.
Swallowed(exception) == TRUE

\* The body of the with block (or the decorated function) ends, by returning
\* or by raising; __exit__ runs and calls _release.
BodyEnds(p) ==
    /\ Alive(p) /\ pc[p] = "body"
    /\ \E raised \in BOOLEAN :
          /\ result' = [result EXCEPT ![p] = IF raised THEN BodyError ELSE Returned]
          /\ pc' = [pc EXCEPT ![p] = IF ExitReleases(raised) THEN "unlink" ELSE "idle"]
    /\ Stepped(p)
    /\ UNCHANGED <<dirent, data, lockowner, status, exitcode, stderr, call, hnd,
                   fd, existing_pid, lockfile, acquired, atexit, ncalls, vacated>>
    /\ UNCHANGED probe

\* A direct call of _release() on a Lock object. Before any _acquire the
\* object has no lockfile attribute: os.unlink(self.lockfile) raises
\* AttributeError inside the try block.
Release(p, h) ==
    /\ Alive(p) /\ pc[p] = "idle" /\ ncalls < MaxCalls
    /\ call' = [call EXCEPT ![p] = "release"]
    /\ hnd' = [hnd EXCEPT ![p] = h]
    /\ ncalls' = ncalls + 1
    /\ solo' = [q \in Procs |-> q = p]
    /\ startrec' = [q \in Procs |-> IF q = p THEN Record ELSE NoRecord]
    /\ rerun' = [q \in Procs |-> FALSE]
    /\ IF lockfile[p][h]
          THEN /\ pc' = [pc EXCEPT ![p] = "unlink"]
               /\ result' = [result EXCEPT ![p] = Returned]
               /\ UNCHANGED acquired
          ELSE /\ pc' = [pc EXCEPT ![p] = "idle"]
               /\ result' = [result EXCEPT ![p] =
                     IF Swallowed("AttributeError") THEN Returned
                     ELSE [exc |-> "AttributeError", msg |-> "lockfile", pid |-> NoPid]]
               /\ acquired' = [acquired EXCEPT ![p][h] = FALSE]
    /\ UNCHANGED <<dirent, data, lockowner, status, exitcode, stderr, fd,
                   existing_pid, lockfile, atexit, vacated>>
    /\ UNCHANGED probe

\* _release returns to __exit__ or to its caller, or to the interpreter that
\* is running the exit functions.
Released(p, exception) ==
    /\ acquired' = [acquired EXCEPT ![p][hnd[p]] = FALSE]
    /\ pc' = [pc EXCEPT ![p] = IF call[p] = "atexit" THEN "atexit" ELSE "idle"]
    /\ result' = [result EXCEPT ![p] =
          IF Swallowed(exception) THEN @
          ELSE [exc |-> exception, msg |-> "unlink", pid |-> NoPid]]

\* A release that leaves the file in place.
os_unlink_omitted(d) == d

\* What the path names after os.unlink(path) of the file d: nothing.
os_unlink(d) == NoFile

\* os.unlink(self.lockfile): removes whatever file the path names; with no
\* file there it raises FileNotFoundError, which is swallowed.
Unlink(p) ==
    /\ Alive(p) /\ pc[p] = "unlink"
    /\ \/ /\ dirent # NoFile
          /\ dirent' = os_unlink(dirent)
          /\ data' = Reap(data, os_unlink(dirent), fd)
          /\ vacated' = acquired[p][hnd[p]]
          /\ Released(p, "none")
       \/ /\ dirent = NoFile
          /\ UNCHANGED <<dirent, data, vacated>>
          /\ Released(p, "FileNotFoundError")
    /\ Stepped(p)
    /\ UNCHANGED <<lockowner, status, exitcode, stderr, call, hnd, fd,
                   existing_pid, lockfile, atexit, ncalls>>
    /\ UNCHANGED probe

\* os.unlink(self.lockfile) fails although the file is there (PermissionError,
\* an I/O error): swallowed, and the file stays.
UnlinkFails(p) ==
    /\ Alive(p) /\ pc[p] = "unlink"
    /\ dirent # NoFile
    /\ Released(p, "OSError")
    /\ Stepped(p)
    /\ UNCHANGED <<dirent, data, lockowner, status, exitcode, stderr, call, hnd,
                   fd, existing_pid, lockfile, atexit, ncalls, vacated>>
    /\ UNCHANGED probe

(***************************************************************************)
(* The end of a process.                                                   *)
(***************************************************************************)
\* The memory of a process that is gone: its Lock objects, its locals and
\* what its calls returned no longer exist.
Gone(p) ==
    /\ pc' = [pc EXCEPT ![p] = "gone"]
    /\ call' = [call EXCEPT ![p] = "none"]
    /\ hnd' = [hnd EXCEPT ![p] = "plain"]
    /\ result' = [result EXCEPT ![p] = NotCalled]
    /\ lockfile' = [lockfile EXCEPT ![p] = [h \in Handles |-> FALSE]]
    /\ acquired' = [acquired EXCEPT ![p] = [h \in Handles |-> FALSE]]
    /\ UNCHANGED ncalls
    /\ solo' = [q \in Procs |-> FALSE]
    /\ startrec' = [q \in Procs |-> NoRecord]
    /\ rerun' = [q \in Procs |-> FALSE]

\* Normal termination: the main program ends (or sys.exit was called) and
\* the interpreter runs the functions registered with atexit.
Terminate(p) ==
    /\ Alive(p) /\ pc[p] = "idle"
    /\ pc' = [pc EXCEPT ![p] = "atexit"]
    /\ Stepped(p)
    /\ UNCHANGED <<dirent, data, lockowner, status, exitcode, stderr, call, hnd,
                   fd, existing_pid, result, lockfile, acquired, atexit, ncalls, vacated>>
    /\ UNCHANGED probe

\* atexit runs the registered self._release functions, last registered first.
RunExitFunction(p) ==
    /\ Alive(p) /\ pc[p] = "atexit" /\ atexit[p] # <<>>
    /\ hnd' = [hnd EXCEPT ![p] = atexit[p][Len(atexit[p])]]
    /\ call' = [call EXCEPT ![p] = "atexit"]
    /\ atexit' = [atexit EXCEPT ![p] = SubSeq(@, 1, Len(@) - 1)]
    /\ pc' = [pc EXCEPT ![p] = "unlink"]
    /\ Stepped(p)
    /\ UNCHANGED <<dirent, data, lockowner, status, exitcode, stderr, fd,
                   existing_pid, result, lockfile, acquired, ncalls,
                   vacated>>
    /\ UNCHANGED probe

\* The process is gone once the exit functions have run.
Exited(p) ==
    /\ Alive(p) /\ pc[p] = "atexit" /\ atexit[p] = <<>>
    /\ status' = [status EXCEPT ![p] = "exited"]
    /\ Gone(p)
    /\ UNCHANGED <<dirent, data, lockowner, exitcode, stderr, fd, existing_pid,
                   atexit, vacated>>
    /\ UNCHANGED probe

\* A hard kill or crash at any point: no exit function runs; the kernel
\* closes the descriptors of the process, which drops its advisory locks.
Kill(p) ==
    /\ Alive(p)
    /\ status' = [status EXCEPT ![p] = "killed"]
    /\ CloseFile(p)
    /\ Gone(p)
    /\ atexit' = [atexit EXCEPT ![p] = <<>>]
    /\ UNCHANGED <<dirent, exitcode, stderr, vacated>>
    /\ UNCHANGED probe

(***************************************************************************)
(* Specifications.                                                         *)
(***************************************************************************)
\* The library used through the with block, the decorator and forever().
Next ==
    \E p \in Procs :
        \/ \E h \in Handles : Enter(p, h)
        \/ \E h \in Handles : Forever(p, h)
        \/ OpenExclusive(p)
        \/ LockCreated(p)
        \/ WriteCreated(p)
        \/ CloseCreated(p)
        \/ OpenUpdate(p)
        \/ LockExisting(p)
        \/ ReadPid(p)
        \/ Probe(p)
        \/ Overwrite(p)
        \/ Truncate(p)
        \/ CloseExisting(p)
        \/ BodyEnds(p)
        \/ Unlink(p)
        \/ Terminate(p)
        \/ RunExitFunction(p)
        \/ Exited(p)
        \/ Kill(p)

Spec == Init /\ [][Next]_vars

\* The same, with direct calls of _release() and with deletions that fail.
NextRaw ==
    \/ Next
    \/ \E p \in Procs : \E h \in Handles : Release(p, h)
    \/ \E p \in Procs : UnlinkFails(p)

SpecRaw == Init /\ [][NextRaw]_vars

(***************************************************************************)
(* Vocabulary of the properties.                                           *)
(***************************************************************************)
AcquireSteps == {"x_open", "x_lock", "x_write", "x_close",
                 "r_open", "r_lock", "r_read", "r_probe", "r_write", "r_trunc", "r_close"}

\* p has returned from _acquire and has not released: it holds the lock.
Holds(p) == Alive(p) /\ \E h \in Handles : acquired[p][h]

\* The last call of p was a with block or forever().
AcquireCall(p) == Alive(p) /\ call[p] \in {"with", "forever"}

\* _acquire of that call has just returned.
AcquireSucceeded(p) ==
    \/ call[p] = "with" /\ pc[p] = "body"
    \/ call[p] = "forever" /\ pc[p] = "idle" /\ result[p] = Returned

\* _acquire of that call ended with an exception or with sys.exit.
AcquireFailed(p) ==
    /\ call[p] \in {"with", "forever"}
    /\ pc[p] \in {"idle", "atexit"}
    /\ result[p].exc \in {"CannotAcquireLock", "ValueError", "SystemExit"}

\* No other process has stepped since p's call began, and none is inside
\* _acquire: p's call is uncontended.
Uncontended(p) == solo[p] /\ \A q \in Procs \ {p} : pc[q] \notin AcquireSteps

\* The record holds exactly the decimal text of p's process identifier.
RecordIsMine(p) == dirent # NoFile /\ data[dirent] = str(getpid(p))

\* An uncontended _acquire of p is not blocked, does not fail, and when it
\* has returned the record is p's.
AcquiresCleanly(p) ==
    /\ ~AcquireFailed(p)
    /\ pc[p] \in {"x_lock", "r_lock"} => lockowner[fd[p]] = NoProc
    /\ AcquireSucceeded(p) => RecordIsMine(p) /\ acquired[p][hnd[p]]

\* The text is that of a positive integer that identifies no process.
StaleText(txt) ==
    /\ int(strip(txt)).ok
    /\ int(strip(txt)).val > 0
    /\ os_kill(int(strip(txt)).val) = "ESRCH"

(***************************************************************************)
(* C1. Mutual exclusion: in every reachable state, whatever the            *)
(* interleaving of the steps of _acquire, of _release and of crashes, at   *)
(* most one live process has returned from _acquire and not yet released.  *)
(***************************************************************************)
C1_MutualExclusion == Cardinality({p \in Procs : Holds(p)}) <= 1

(***************************************************************************)
(* C2. Stale-lock reclamation: when the record names a process that no     *)
(* longer exists (its holder crashed), an uncontended acquire by a live    *)
(* process succeeds, and the record then holds exactly the acquirer's own  *)
(* process identifier, the earlier content truncated.                      *)
(***************************************************************************)
C2_StaleReclaimed ==
    \A p \in Procs :
        (AcquireCall(p) /\ Uncontended(p)
            /\ startrec[p].kind = "file" /\ StaleText(startrec[p].txt))
        => AcquiresCleanly(p)

\* A process has reclaimed the record of a holder that was killed.
C2_Witness ==
    \E p \in Procs : \E q \in Procs \ {p} :
        /\ status[q] = "killed"
        /\ AcquireCall(p) /\ Uncontended(p) /\ AcquireSucceeded(p)
        /\ startrec[p].kind = "file" /\ startrec[p].txt = my_pid(q)
        /\ Len(my_pid(q)) > Len(my_pid(p))
        /\ RecordIsMine(p)

(***************************************************************************)
(* C4. Fresh acquisition: when no record exists for the name and no other  *)
(* process is attempting the name, acquire succeeds and the record's       *)
(* content is exactly the acquirer's own process identifier.               *)
(***************************************************************************)
C4_FreshAcquire ==
    \A p \in Procs :
        (AcquireCall(p) /\ Uncontended(p) /\ startrec[p].kind # "file")
        => AcquiresCleanly(p)

\* A process has acquired the lock whose record did not exist.
C4_Witness ==
    \E p \in Procs :
        /\ AcquireCall(p) /\ Uncontended(p) /\ AcquireSucceeded(p)
        /\ startrec[p].kind = "absent"
        /\ RecordIsMine(p)

(***************************************************************************)
(* C3. Conflict: whenever the record names a live process that holds the   *)
(* lock, an acquire attempt for the name (by another process, or by the    *)
(* same process through its other Lock object) ends with the lock-held     *)
(* error naming that process, and leaves the record as it was.            *)
(***************************************************************************)
\* The record names the live process q, which holds the lock.
RecordNamesHolder(q) ==
    /\ Holds(q)
    /\ dirent # NoFile
    /\ int(strip(data[dirent])).ok
    /\ int(strip(data[dirent])).val = getpid(q)

\* The step is a step of an acquire attempt of p (and not p's death by a
\* kill).
AttemptStep(p) ==
    /\ pc[p] \in AcquireSteps
    /\ pc'[p] # pc[p]
    /\ status'[p] # "killed"

\* p is told that the lock is held by pid: CannotAcquireLock with the
\* message naming pid, or with die the same message on stderr and exit.
ToldLockHeld(p, pid) ==
    \/ result'[p] = LockHeld(pid)
    \/ die(hnd[p]) /\ result'[p] = SystemExit /\ stderr'[p] = pid

C3_Conflict ==
    [][\A p \in Procs : \A q \in Procs :
          (AttemptStep(p) /\ RecordNamesHolder(q))
          => /\ pc'[p] \notin AcquireSteps => ToldLockHeld(p, getpid(q))
             /\ dirent' = dirent
             /\ data'[dirent] = data[dirent]]_vars

(***************************************************************************)
(* C5. Release then acquire: once the holder has released a held lock the  *)
(* record no longer exists, and the next uncontended acquire of the name,  *)
(* by any process, succeeds.                                               *)
(***************************************************************************)
C5_ReleaseThenAcquire ==
    /\ vacated => dirent = NoFile
    /\ \A p \in Procs :
          (AcquireCall(p) /\ Uncontended(p) /\ startrec[p].kind = "released")
          => AcquiresCleanly(p)

\* A process has acquired the lock that its holder had released.
C5_Witness ==
    \E p \in Procs :
        /\ AcquireCall(p) /\ Uncontended(p) /\ AcquireSucceeded(p)
        /\ startrec[p].kind = "released"
        /\ RecordIsMine(p)

(***************************************************************************)
(* C6. Corrupt record: when the content read from the existing record is   *)
(* empty or is not integer text once stripped, _acquire goes on to the     *)
(* overwrite without probing any process and without an error, writes the  *)
(* acquirer's identifier as the whole content of the record, and returns.  *)
(***************************************************************************)
\* p is in the second block of _acquire and found no integer in the record.
Ownerless(p) ==
    /\ pc[p] \in {"r_write", "r_trunc", "r_close"}
    /\ existing_pid[p] = NoPid

C6_CorruptRecord ==
    [][\A p \in Procs : (Alive(p) /\ Alive(p)' /\ pc'[p] # pc[p]) =>
          /\ (pc[p] = "r_read" /\ ~int(strip(data[fd[p]])).ok)
                => pc'[p] = "r_write" /\ result'[p] = result[p] /\ Ownerless(p)'
          /\ (Ownerless(p) /\ pc[p] = "r_write") => pc'[p] = "r_trunc"
          /\ (Ownerless(p) /\ pc[p] = "r_trunc")
                => pc'[p] = "r_close" /\ dirent' = fd[p] /\ RecordIsMine(p)'
          /\ (Ownerless(p) /\ pc[p] = "r_close")
                => /\ acquired'[p][hnd[p]]
                   /\ RecordIsMine(p)'
                   /\ result'[p].exc \in {"none", "nocall"}]_vars

\* A process has overwritten a record that held no integer text.
C6_Witness ==
    \E p \in Procs :
        /\ Alive(p) /\ Ownerless(p) /\ pc[p] = "r_close"
        /\ startrec[p].kind = "file" /\ ~int(strip(startrec[p].txt)).ok
        /\ startrec[p].txt # <<>>
        /\ RecordIsMine(p)

(***************************************************************************)
(* C7. Vanished record: when the exclusive creation failed because the     *)
(* record existed and the record is gone by the time _acquire opens it for *)
(* update, the acquire fails with an error: it does not try again, it does *)
(* not return, and it creates and writes no record.                        *)
(***************************************************************************)
C7_VanishedRecord ==
    [][\A p \in Procs :
          (Alive(p) /\ pc[p] = "r_open" /\ pc'[p] # "r_open" /\ Alive(p)'
              /\ dirent = NoFile)
          => /\ pc'[p] = "idle"
             /\ result'[p] = ErrorOpening
             /\ acquired'[p] = acquired[p]
             /\ atexit'[p] = atexit[p]
             /\ UNCHANGED <<dirent, data, lockowner, fd>>]_vars

\* An acquire has failed because the record vanished.
C7_Witness ==
    \E p \in Procs :
        /\ AcquireCall(p) /\ pc[p] = "idle" /\ result[p] = ErrorOpening
        /\ dirent = NoFile

(***************************************************************************)
(* C8. Release never raises: _release on a Lock object that was never      *)
(* acquired, on one already released, or when the deletion of the record   *)
(* fails for any reason, returns without an error reaching the caller.     *)
(***************************************************************************)
C8_ReleaseNeverRaises ==
    \A p \in Procs :
        result[p].exc \notin {"AttributeError", "FileNotFoundError", "OSError"}

\* _release has returned from a Lock object that was never acquired.
C8_Witness ==
    \E p \in Procs :
        /\ Alive(p) /\ call[p] = "release" /\ pc[p] = "idle"
        /\ ~lockfile[p][hnd[p]]
        /\ result[p] = Returned

(***************************************************************************)
(* C9. Scoped acquisition: a with block (a decorated function) releases    *)
(* the lock on every way out of its body, by return and by exception: the  *)
(* release removes the record and the process no longer holds the lock     *)
(* once the block is left, and the same block run again right after        *)
(* acquires successfully.                                                  *)
(***************************************************************************)
\* The with block of p has been left.
WithLeft(p) ==
    /\ Alive(p) /\ call[p] = "with" /\ pc[p] = "idle"
    /\ result[p] \in {Returned, BodyError}

C9_ScopedAcquisition ==
    [][\A p \in Procs :
          /\ (Alive(p) /\ call[p] = "with" /\ pc[p] = "unlink" /\ pc'[p] = "idle")
                => dirent' = NoFile
          /\ WithLeft(p)' => ~acquired'[p][hnd'[p]]
          /\ (rerun[p] /\ solo[p] /\ AcquireCall(p))'
                => (AcquiresCleanly(p))']_vars

\* A with block run a second time is in its body again.
C9_Witness ==
    \E p \in Procs :
        /\ rerun[p] /\ solo[p] /\ call[p] = "with" /\ pc[p] = "body"
        /\ RecordIsMine(p)

(***************************************************************************)
(* C10. Hold for the process lifetime: once forever() has returned the     *)
(* record names the process in every state until the process terminates;   *)
(* at normal termination the registered release removes the record; a hard *)
(* kill leaves the record in place; and a forever() whose acquire fails    *)
(* registers no release.                                                   *)
(***************************************************************************)
\* forever() has returned in p and its release has not run yet.
HoldsForever(p) == Alive(p) /\ atexit[p] # <<>>

C10_NamedWhileAlive ==
    \A p \in Procs : HoldsForever(p) => RecordIsMine(p)

C10_ReleasedAtExit ==
    \A p \in Procs :
        (Alive(p) /\ call[p] = "atexit" /\ pc[p] = "unlink" /\ pc'[p] # "unlink"
            /\ Alive(p)')
        => dirent' = NoFile

C10_KillLeavesRecord ==
    \A p \in Procs :
        (Alive(p) /\ status'[p] = "killed")
        => dirent' = dirent /\ (dirent # NoFile => data'[dirent] = data[dirent])

C10_FailureRegistersNothing ==
    \A p \in Procs :
        (Alive(p) /\ call[p] = "forever" /\ pc[p] \in AcquireSteps
            /\ AcquireFailed(p)')
        => atexit'[p] = atexit[p]

C10_HoldForLifetime ==
    [][/\ C10_NamedWhileAlive'
       /\ C10_ReleasedAtExit
       /\ C10_KillLeavesRecord
       /\ C10_FailureRegistersNothing]_vars

\* The three parts of C10 that do not depend on what other processes do.
C10_Rest ==
    [][/\ C10_ReleasedAtExit
       /\ C10_KillLeavesRecord
       /\ C10_FailureRegistersNothing]_vars

(***************************************************************************)
(* C11. Die-on-conflict policy: when _acquire on a Lock object made with   *)
(* die=True finds that the record names a live process, the message naming *)
(* that process identifier is printed and the process exits with status 1, *)
(* so control never returns to the code after the acquire; in every other  *)
(* outcome of _acquire or _release (success, lock held without die, an     *)
(* invalid or vanished record, a deletion that fails) the library does not *)
(* terminate the process.                                                  *)
(***************************************************************************)
\* The step is a step of p inside _acquire or _release (and not its death by
\* a kill).
LibraryStep(p) ==
    /\ Alive(p) /\ status'[p] # "killed"
    /\ pc[p] \in AcquireSteps \cup {"unlink"}
    /\ pc'[p] # pc[p]

\* p, through a Lock object made with die=True, is about to learn that the
\* process named by the record exists.
DieConflict(p) ==
    /\ pc[p] = "r_probe" /\ hnd[p] = "die"
    /\ existing_pid[p] > 0
    /\ os_kill(existing_pid[p]) \in {"ok", "EPERM"}

FailedLockHeld(r) == r.pid # NoPid /\ r = LockHeld(r.pid)

\* The call ended with the error of a record that vanished or could not be
\* opened, read or written.
FailedIndeterminate(r) == r = ErrorOpening

C12_DistinctErrors ==
    \A p \in Procs : \A q \in Procs :
        (FailedLockHeld(result[p]) /\ FailedIndeterminate(result[q]))
        => result[p].exc # result[q].exc

(***************************************************************************)
(* is_pid_valid on its own: one call, for every argument and every answer  *)
(* of os.kill.                                                             *)
(***************************************************************************)
\* The largest identifier (in absolute value) given to is_pid_valid.
MaxProbedPid == 12

ProbedPids == (0 - MaxProbedPid)..MaxProbedPid

InitProbe ==
    /\ dirent = NoFile /\ data = [i \in Inodes |-> <<>>]
    /\ lockowner = [i \in Inodes |-> NoProc]
    /\ status = [p \in Procs |-> "running"]
    /\ exitcode = [p \in Procs |-> 0]
    /\ stderr = [p \in Procs |-> NoPid]
    /\ pc = [p \in Procs |-> "idle"]
    /\ call = [p \in Procs |-> "none"]
    /\ hnd = [p \in Procs |-> "plain"]
    /\ fd = [p \in Procs |-> NoFile]
    /\ existing_pid = [p \in Procs |-> NoPid]
    /\ result = [p \in Procs |-> NotCalled]
    /\ lockfile = [p \in Procs |-> [h \in Handles |-> FALSE]]
    /\ acquired = [p \in Procs |-> [h \in Handles |-> FALSE]]
    /\ atexit = [p \in Procs |-> <<>>]
    /\ ncalls = 0
    /\ solo = [p \in Procs |-> FALSE]
    /\ startrec = [p \in Procs |-> NoRecord]
    /\ rerun = [p \in Procs |-> FALSE]
    /\ vacated = FALSE
    /\ probe \in [isint : BOOLEAN, pid : ProbedPids, outcome : KillOutcomes,
                  ret : {"uncalled"}]

\* is_pid_valid(pid) is called and returns or raises. os.kill(pid, 0) sends
\* no signal: only the error checking is performed.
CallIsPidValid ==
    /\ probe.ret = "uncalled"
    /\ probe' = [probe EXCEPT !.ret = pid_valid(probe.isint, probe.pid, probe.outcome)]
    /\ UNCHANGED <<dirent, data, lockowner, status, exitcode, stderr, pc, call,
                   hnd, fd, existing_pid, result, lockfile, acquired, atexit,
                   ncalls, solo, startrec, rerun, vacated>>

NextProbe == CallIsPidValid

SpecProbe == InitProbe /\ [][NextProbe]_vars

(***************************************************************************)
(* C13. Liveness oracle: for every identifier and every answer of the      *)
(* probe, is_pid_valid returns true when the probe succeeds or is refused  *)
(* for lack of permission, returns false only when the operating system    *)
(* reports no such process, raises an error for any other failure of the   *)
(* probe, and raises an error (it never returns false) for an identifier   *)
(* that is zero, negative or not an integer; the probe leaves the target   *)
(* process as it was.                                                      *)
(***************************************************************************)
C13_OracleResult ==
    [][probe'.ret # probe.ret =>
          /\ (probe.isint /\ probe.pid > 0 /\ probe.outcome \in {"ok", "EPERM"})
                => probe'.ret = "True"
          /\ probe'.ret = "False"
                <=> (probe.isint /\ probe.pid > 0 /\ probe.outcome = "ESRCH")
          /\ (probe.isint /\ probe.pid > 0
                  /\ probe.outcome \notin {"ok", "EPERM", "ESRCH"})
                => probe'.ret = "OSError"
          /\ (~probe.isint \/ probe.pid <= 0) => probe'.ret = "ValueError"
          /\ status' = status]_vars

\* is_pid_valid has returned True for a process it was refused to signal.
C13_Witness ==
    /\ probe.isint /\ probe.pid > 0 /\ probe.outcome = "EPERM"
    /\ probe.ret = "True"

(***************************************************************************)
(* C14. The creation race window is closed: once a process has created the *)
(* record with the exclusive open, no other process inside _acquire has    *)
(* read the record before the creator's identifier is written into it; in  *)
(* particular none has read the new record as empty and gone on to reclaim *)
(* it as ownerless.                                                        *)
(***************************************************************************)
\* q has created the record and has not written its identifier yet.
CreatedUnwritten(q) ==
    /\ Alive(q) /\ pc[q] \in {"x_lock", "x_write"}
    /\ fd[q] # NoFile

\* p has read the file that q created.
HasRead(p, q) ==
    /\ Alive(p) /\ fd[p] = fd[q]
    /\ pc[p] \in {"r_probe", "r_write", "r_trunc", "r_close"}

C14_CreationWindowClosed ==
    \A q \in Procs : \A p \in Procs \ {q} :
        CreatedUnwritten(q) => ~HasRead(p, q)

(***************************************************************************)
(* C15. Holder implies record: in every reachable state, if a live process *)
(* has returned from _acquire and has not yet released, a record exists at *)
(* the lock's location and its content is that process's identifier.       *)
(***************************************************************************)
C15_HolderImpliesRecord ==
    \A p \in Procs : Holds(p) => RecordIsMine(p)

(***************************************************************************)
(* C16. Release removes only the releaser's own record: a _release run by  *)
(* a process never deletes a record whose stored owner is a different live *)
(* process; a second release of a released Lock object, and a release of a *)
(* Lock object whose acquire failed, leave in place the record that        *)
(* another process has acquired.                                           *)
(***************************************************************************)
\* The record stores the identifier of the live process q.
RecordNames(q) ==
    /\ Alive(q)
    /\ dirent # NoFile
    /\ int(strip(data[dirent])).ok
    /\ int(strip(data[dirent])).val = getpid(q)

C16_ReleaseOwnRecordOnly ==
    [][\A p \in Procs : \A q \in Procs \ {p} :
          (Alive(p) /\ pc[p] = "unlink" /\ pc'[p] # "unlink" /\ RecordNames(q))
          => dirent' = dirent]_vars

(***************************************************************************)
(* The same library, started with no lock file at the location.            *)
(***************************************************************************)
InitFresh == Init /\ dirent = NoFile

SpecFresh == InitFresh /\ [][Next]_vars

(***************************************************************************)
(* C17. The record is never partially written: starting from an absent     *)
(* record, in every reachable state in which no process is between opening *)
(* and closing the file inside _acquire, the record is absent or contains  *)
(* exactly the decimal text of one process identifier: never the bytes of  *)
(* two writers mixed, never leftover trailing characters, also when the    *)
(* identifiers of the processes have different numbers of digits. It is    *)
(* stated for the runs in which no process is killed: a process killed     *)
(* between creating the file and writing to it leaves an empty file.       *)
(***************************************************************************)
\* No process has the lock file open.
NoneInside == \A p \in Procs : fd[p] = NoFile

NoneKilled == \A p \in Procs : status[p] # "killed"

C17_NeverPartiallyWritten ==
    (NoneInside /\ NoneKilled) =>
        \/ dirent = NoFile
        \/ \E p \in Procs : data[dirent] = str(getpid(p))

(***************************************************************************)
(* C18. All mutation under the advisory lock: every step that changes the  *)
(* lock record (creating it, writing or truncating its content, deleting   *)
(* it on release) is made by a process that holds the advisory lock of     *)
(* os.lockf on that record: on the file it changes or deletes, and on the  *)
(* file it has created as soon as the file exists.                         *)
(***************************************************************************)
\* The step is a step of p that changes the record at the lock's location.
ChangesRecord(p) ==
    /\ Alive(p) /\ pc'[p] # pc[p]
    /\ \/ dirent' # dirent
       \/ dirent # NoFile /\ data'[dirent] # data[dirent]

C18_MutationUnderLock ==
    [][\A p \in Procs :
          ChangesRecord(p)
          => IF dirent = NoFile THEN lockowner'[dirent'] = p
                                ELSE lockowner[dirent] = p]_vars

\* The same for the writes and truncations of _acquire alone.
C18_WritesUnderLock ==
    [][\A p \in Procs :
          (ChangesRecord(p) /\ dirent' = dirent) => lockowner[dirent] = p]_vars

\* The deletion of _release alone.
C18_DeletionUnderLock ==
    [][\A p \in Procs :
          (ChangesRecord(p) /\ dirent # NoFile /\ dirent' = NoFile)
          => lockowner[dirent] = p]_vars

(***************************************************************************)
(* Scheduling: a process that is inside _acquire keeps running. Each of    *)
(* its steps is a system call or a computation that ends; only os.lockf    *)
(* waits, for the process that holds the advisory lock.                    *)
(***************************************************************************)
\* A step of p inside _acquire.
InsideAcquire(p) ==
    \/ OpenExclusive(p)
    \/ LockCreated(p)
    \/ WriteCreated(p)
    \/ CloseCreated(p)
    \/ OpenUpdate(p)
    \/ LockExisting(p)
    \/ ReadPid(p)
    \/ Probe(p)
    \/ Overwrite(p)
    \/ Truncate(p)
    \/ CloseExisting(p)

SpecFair == Init /\ [][Next]_vars /\ \A p \in Procs : WF_vars(InsideAcquire(p))

(***************************************************************************)
(* C19. Acquire never waits for the logical holder: the advisory lock is   *)
(* released on every way out of _acquire (success, lock-held error, exit   *)
(* under the die policy, I/O error) and is never held while a process runs *)
(* its protected body, so under fair scheduling every call of _acquire     *)
(* eventually ends, with success or with failure, even when another        *)
(* process holds the lock forever.                                         *)
(***************************************************************************)
\* p holds no advisory lock and has no lock file open.
HoldsNoAdvisoryLock(p) ==
    /\ fd[p] = NoFile
    /\ \A i \in Inodes : lockowner[i] # p

C19_NeverWaitsForHolder ==
    /\ [](\A p \in Procs : pc[p] \notin AcquireSteps => HoldsNoAdvisoryLock(p))
    /\ \A p \in Procs : [](pc[p] \in AcquireSteps => <>(pc[p] \notin AcquireSteps))

\* An acquire has ended with the lock-held error while the holder is still
\* in its protected body.
C19_Witness ==
    \E p \in Procs : \E q \in Procs \ {p} :
        /\ Alive(q) /\ pc[q] = "body" /\ acquired[q][hnd[q]]
        /\ Alive(p) /\ pc[p] = "idle" /\ call[p] \in {"with", "forever"}
        /\ result[p] = LockHeld(getpid(q))

(***************************************************************************)
(* C20. No permanently stuck lock: for every content of the record that    *)
(* does not identify a live process (no record, empty text, text that is   *)
(* not a number, integer text that is zero or negative, or the identifier  *)
(* of a process that no longer exists) an uncontended acquire by a live    *)
(* process succeeds.                                                       *)
(***************************************************************************)
\* The text is that of an identifier of a process that exists.
NamesLiveProcess(txt) ==
    /\ int(strip(txt)).ok
    /\ int(strip(txt)).val > 0
    /\ os_kill(int(strip(txt)).val) \in {"ok", "EPERM"}

C20_NoStuckLock ==
    \A p \in Procs :
        (AcquireCall(p) /\ Uncontended(p)
            /\ (startrec[p].kind = "file" => ~NamesLiveProcess(startrec[p].txt)))
        => AcquiresCleanly(p)

\* The same without the integer texts that are zero or negative.
C20_NoStuckLockPositive ==
    \A p \in Procs :
        (AcquireCall(p) /\ Uncontended(p)
            /\ (startrec[p].kind = "file" =>
                    /\ ~NamesLiveProcess(startrec[p].txt)
                    /\ int(strip(startrec[p].txt)).ok
                          => int(strip(startrec[p].txt)).val > 0))
        => AcquiresCleanly(p)

====
